---- MODULE Spec2Model ----
(***************************************************************************)
(* Model of src/app.py: the "Antarctic Explorer" Shiny dashboard.          *)
(*                                                                         *)
(* One process holds the module-level deque temp_deque and the module-     *)
(* level reactive calc reactive_calc_combined; every browser session runs  *)
(* server(), whose five outputs read that one calc.  The framework is      *)
(* modelled by what the code relies on: a reactive calc caches its value   *)
(* until invalidate_later fires, and an invalidated output is rendered     *)
(* again in the flush that follows the invalidation.                       *)
(*                                                                         *)
(* Temperatures are integers in tenths of a degree Celsius (the generator  *)
(* rounds to one decimal); DataFrame cells are exact fractions of a        *)
(* hundredth of a degree, [n, d] in lowest terms, and [0, 0] is NaN.       *)
(***************************************************************************)
EXTENDS Integers, Sequences, FiniteSets, TLC

VARIABLES
    now,          \* wall clock in seconds; the timer fires once per second
    maxlen,       \* temp_deque.maxlen
    temp_deque,   \* the module-level deque of {"temp", "timestamp"} dicts
    appended,     \* history: every dict ever appended, with the session whose render drew it
    calc_valid,   \* reactive_calc_combined holds a cached value
    df,           \* the DataFrame in the cached tuple (one object, handed to every reader)
    latest,       \* latest_dictionary_entry in the cached tuple
    plot_renders, \* display_plot executions on the cached DataFrame
    inputs,       \* input changes received so far
    connected,    \* sessions whose server() has run
    temp_unit,    \* input.temp_unit() per session
    location,     \* input.location() per session
    pending,      \* invalidated outputs per session, waiting for the flush
    rendered      \* the value each output last rendered, per session

vars == <<now, maxlen, temp_deque, appended, calc_valid, df, latest, plot_renders, inputs,
          connected, temp_unit, location, pending, rendered>>

----------------------------------------------------------------------------
(* Bounds and program constants *)

\* capacity of temp_deque, scaled down from the program's 100 so that eviction is reached
MAX_DEQUE_LENGTH == 2
\* timer firings explored
MaxTicks == 2
\* radio-button and drop-down changes explored
MaxInputs == 1
\* display_plot executions explored on one cached DataFrame
MaxPlotRenders == 2

UPDATE_INTERVAL_SECS == 1
\* random.uniform(-18, -16) rounded to one decimal, in tenths
TempMin == -180
TempMax == -160
\* temp_message's threshold -17, in tenths
HeatwaveThreshold == -170

Sessions == {1, 2}
Units == {"Celsius", "Fahrenheit", "Kelvin"}
Locations == {"Palmer Station", "Port Lockroy", "Yelcho Base"}
Outputs == {"display_temp", "display_time", "display_location_with_icon",
            "temp_message", "display_plot"}
\* the outputs whose body calls reactive_calc_combined()
CalcReaders == {"display_temp", "display_time", "temp_message", "display_plot"}
\* the outputs whose body calls input.temp_unit()
UnitReaders == {"display_temp", "display_plot"}

GeneratorRange == TempMin..TempMax
\* the draws explored by Spec: the threshold value and its upper neighbour
SampleTemps == {HeatwaveThreshold, HeatwaveThreshold + 1}

----------------------------------------------------------------------------
(* Exact arithmetic for the DataFrame's float columns *)

Abs(x) == IF x < 0 THEN -x ELSE x

RECURSIVE GCD(_, _)
GCD(a, b) == IF b = 0 THEN a ELSE GCD(b, a % b)

\* 0.0 / 0.0
NaN == [n |-> 0, d |-> 0]

IsNaN(v) == v.d = 0

\* n / d in lowest terms, d > 0
Frac(n, d) == LET g == GCD(Abs(n), d) IN [n |-> n \div g, d |-> d \div g]

FromInt(k) == [n |-> k, d |-> 1]

FScale(a, k) == IF IsNaN(a) THEN NaN ELSE Frac(a.n * k, a.d)

FAdd(a, b) ==
    IF IsNaN(a) \/ IsNaN(b) THEN NaN
    ELSE LET l == (a.d \div GCD(a.d, b.d)) * b.d
         IN  Frac(a.n * (l \div a.d) + b.n * (l \div b.d), l)

FSub(a, b) == FAdd(a, FScale(b, -1))

\* a / k; the only zero divisor the code meets comes with a zero dividend (0.0 / 0.0)
FDivInt(a, k) ==
    IF IsNaN(a) \/ k = 0 THEN NaN
    ELSE IF k > 0 THEN Frac(a.n, a.d * k) ELSE Frac(-a.n, a.d * (-k))

RECURSIVE FSum(_, _)
\* y[1] + ... + y[i]
FSum(y, i) == IF i = 0 THEN FromInt(0) ELSE FAdd(FSum(y, i - 1), y[i])

RECURSIVE FWeightedSum(_, _)
\* 0*y[1] + 1*y[2] + ... + (i-1)*y[i]
FWeightedSum(y, i) ==
    IF i = 0 THEN FromInt(0) ELSE FAdd(FWeightedSum(y, i - 1), FScale(y[i], i - 1))

----------------------------------------------------------------------------
(* The window: deque(maxlen=...).append and pd.DataFrame(temp_deque) *)

\* a dict {"temp": temp, "timestamp": timestamp}
Entry(temp, timestamp) == [temp |-> temp, timestamp |-> timestamp]

\* before the calc has ever run there is no latest_dictionary_entry
NoEntry == Entry(0, -1)

\* deque_append as a plain list would do it: nothing is ever evicted
list_append(dq, cap, x) == Append(dq, x)

\* deque_append as appendleft would do it: the new dict goes in at the old end
deque_appendleft(dq, cap, x) ==
    IF cap = 0 THEN dq
    ELSE IF Len(dq) >= cap THEN <<x>> \o SubSeq(dq, 1, Len(dq) - 1)
    ELSE <<x>> \o dq

\* deque.append on a bounded deque: a full deque drops its left end first;
\* a deque of maxlen 0 keeps nothing
deque_append(dq, cap, x) ==
    IF cap = 0 THEN dq
    ELSE IF Len(dq) >= cap THEN Append(Tail(dq), x)
    ELSE Append(dq, x)

\* a Celsius reading in tenths as a float cell (hundredths)
Cell(temp) == FromInt(10 * temp)

\* pd.DataFrame(temp_deque): one row per dict, columns "temp" and "timestamp";
\* the timestamp column holds the strftime strings until display_plot parses it
DataFrame(dq) ==
    [temp          |-> [i \in 1..Len(dq) |-> Cell(dq[i].temp)],
     timestamp     |-> [i \in 1..Len(dq) |-> dq[i].timestamp],
     ts_parsed     |-> FALSE,
     best_fit_line |-> <<>>]

\* df.empty
df_empty(d) == Len(d.temp) = 0

----------------------------------------------------------------------------
(* display_temp, display_time, display_location_with_icon, temp_message *)

\* tenths that round(value, 1) keeps of a value in hundredths that is no tie
Round1(h) == (h + 5) \div 10

\* Generator values whose temp + 273.15 is a double on the tie that round(_, 1)
\* takes upwards: -16.4 + 273.15 is exactly 256.75 and becomes 256.8; for every
\* other generator value the double sum lies below the tie and is rounded down
KelvinRoundsUp == {-164}

\* the number display_temp prints, in tenths, with its unit suffix
display_temp(entry, unit) ==
    LET temp_celsius == entry.temp IN
    IF unit = "Fahrenheit"
    THEN [shown |-> TRUE, value |-> Round1(18 * temp_celsius + 3200), suffix |-> "F"]
    ELSE IF unit = "Kelvin"
    THEN [shown |-> TRUE,
          value |-> ((10 * temp_celsius + 27315) - 5) \div 10
                    + (IF temp_celsius \in KelvinRoundsUp THEN 1 ELSE 0),
          suffix |-> "K"]
    ELSE [shown |-> TRUE, value |-> temp_celsius, suffix |-> "C"]

display_time(entry) == [shown |-> TRUE, timestamp |-> entry.timestamp]

display_location_with_icon(loc) ==
    [shown |-> TRUE,
     location |-> loc,
     icon |-> IF loc = "Palmer Station" THEN "fa-flag-usa"
              ELSE IF loc = "Port Lockroy" THEN "fa-flag-checkered"
              ELSE IF loc = "Yelcho Base" THEN "fa-flag"
              ELSE "none"]

\* IsHeatwave with the threshold itself counted as a heatwave
IsHeatwaveInclusive(temp_celsius) == temp_celsius >= HeatwaveThreshold

\* temp_celsius > -17
IsHeatwave(temp_celsius) == temp_celsius > HeatwaveThreshold

temp_message(entry) ==
    [shown |-> TRUE,
     message |-> IF IsHeatwave(entry.temp) THEN "Micro Heatwave" ELSE "Could be Warmer",
     icon |-> IF IsHeatwave(entry.temp) THEN "fa-sun" ELSE "fa-snowflake"]

----------------------------------------------------------------------------
(* display_plot *)

\* scipy.stats.linregress(range(len(y)), y): slope = ssxym / ssxm and
\* intercept = ymean - slope * xmean, both scaled here by len(y)^2.  Empty
\* input raises ValueError; one point gives ssxm = ssxym = 0, so the slope is
\* 0.0 / 0.0 and the intercept is computed from it.
linregress(y) ==
    LET n   == Len(y)
        sx  == (n * (n - 1)) \div 2
        sxx == ((n - 1) * n * (2 * n - 1)) \div 6
        sy  == FSum(y, n)
        sxy == FWeightedSum(y, n)
        slope == FDivInt(FSub(FScale(sxy, n), FScale(sy, sx)), n * sxx - sx * sx)
        intercept == FSub(FDivInt(sy, n), FDivInt(FScale(slope, sx), n))
    IN  IF n = 0
        THEN [raised |-> "ValueError", slope |-> NaN, intercept |-> NaN]
        ELSE [raised |-> "none", slope |-> slope, intercept |-> intercept]

\* df["temp"] in the selected unit, cell by cell
ConvertCell(v, unit) ==
    IF unit = "Fahrenheit" THEN FAdd(FDivInt(FScale(v, 9), 5), FromInt(3200))
    ELSE IF unit = "Kelvin" THEN FAdd(v, FromInt(27315))
    ELSE v

y_label(unit) ==
    IF unit = "Fahrenheit" THEN "Temperature (F)"
    ELSE IF unit = "Kelvin" THEN "Temperature (K)"
    ELSE "Temperature (C)"

\* what an output holds before its first render
NoPlot ==
    [kind |-> "none", x |-> <<>>, y |-> <<>>, label |-> "", fit_n |-> -1,
     slope |-> NaN, intercept |-> NaN, line |-> <<>>]

\* ui.HTML("<div>No data available for plotting.</div>")
Placeholder == [NoPlot EXCEPT !.kind = "placeholder"]

\* ShouldPlot without the emptiness test
PlotsAlways(d) == TRUE

\* the guard of the plotting branch: if not df.empty
ShouldPlot(d) == ~df_empty(d)

\* The plotting branch, lines 252-298, on the DataFrame d it was handed: the
\* column assignments write into d itself.  A frame built from an empty deque
\* has no columns, so df["timestamp"] raises KeyError there.
PlotBranch(d, unit) ==
    IF Len(d.timestamp) = 0
    THEN [out |-> [NoPlot EXCEPT !.kind = "error"], df |-> d]
    ELSE
    LET temp == [i \in 1..Len(d.temp) |-> ConvertCell(d.temp[i], unit)]
        fit  == linregress(temp)
        line == [i \in 1..Len(temp) |-> FAdd(FScale(fit.slope, i - 1), fit.intercept)]
    IN  [out |-> [kind |-> "chart", x |-> d.timestamp, y |-> temp,
                  label |-> y_label(unit), fit_n |-> Len(temp),
                  slope |-> fit.slope, intercept |-> fit.intercept, line |-> line],
         df  |-> [temp |-> temp, timestamp |-> d.timestamp, ts_parsed |-> TRUE,
                  best_fit_line |-> line]]

\* display_plot's body after the call of reactive_calc_combined():
\* the rendered value and the DataFrame as the body leaves it
display_plot(d, unit) ==
    IF ShouldPlot(d) THEN PlotBranch(d, unit) ELSE [out |-> Placeholder, df |-> d]

----------------------------------------------------------------------------
(* reactive_calc_combined *)

\* NeedsRun of a plain function: every call runs the body
AlwaysRuns == TRUE

\* @reactive.calc(): the body runs only when no cached value is held
NeedsRun == ~calc_valid

\* reactive_calc_combined with the append outside the cached body: a call that
\* finds the cached value appends the cached entry once more
calc_appending_on_read(s, temp) ==
    IF ~calc_valid
    THEN LET entry == Entry(temp, now)
             dq    == deque_append(temp_deque, maxlen, entry)
         IN  [temp_deque   |-> dq,
              df           |-> DataFrame(dq),
              latest       |-> entry,
              appended     |-> Append(appended, [temp |-> temp, timestamp |-> now, by |-> s]),
              plot_renders |-> 0]
    ELSE [temp_deque   |-> deque_append(temp_deque, maxlen, latest),
          df           |-> df,
          latest       |-> latest,
          appended     |-> Append(appended, [temp |-> latest.temp,
                                             timestamp |-> latest.timestamp, by |-> s]),
          plot_renders |-> plot_renders]

\* A call of reactive_calc_combined() by a render of session s: the tuple
\* (temp_deque, df, latest_dictionary_entry) it returns, with the state the call
\* leaves behind.  When the body runs, temp is the draw and the timestamp is
\* the clock formatted to the second; otherwise the cached objects are returned.
reactive_calc_combined(s, temp) ==
    IF NeedsRun
    THEN LET entry == Entry(temp, now)
             dq    == deque_append(temp_deque, maxlen, entry)
         IN  [temp_deque   |-> dq,
              df           |-> DataFrame(dq),
              latest       |-> entry,
              appended     |-> Append(appended, [temp |-> temp, timestamp |-> now, by |-> s]),
              plot_renders |-> 0]
    ELSE [temp_deque   |-> temp_deque,
          df           |-> df,
          latest       |-> latest,
          appended     |-> appended,
          plot_renders |-> plot_renders]

\* random.uniform is consulted only when the body runs: the draws a call of
\* reactive_calc_combined() may see, out of the generator values T
Draws(T) == IF NeedsRun THEN T ELSE {CHOOSE temp \in T : TRUE}

----------------------------------------------------------------------------
(* The state machine *)

NotRendered ==
    [o \in Outputs |->
        IF o = "display_plot" THEN NoPlot
        ELSE IF o = "display_temp" THEN [shown |-> FALSE, value |-> 0, suffix |-> ""]
        ELSE IF o = "display_time" THEN [shown |-> FALSE, timestamp |-> -1]
        ELSE IF o = "temp_message" THEN [shown |-> FALSE, message |-> "", icon |-> ""]
        ELSE [shown |-> FALSE, location |-> "", icon |-> ""]]

\* the process after import of app.py, no browser connected yet
InitWith(cap) ==
    /\ now = 0
    /\ maxlen = cap
    /\ temp_deque = <<>>
    /\ appended = <<>>
    /\ calc_valid = FALSE
    /\ df = DataFrame(<<>>)
    /\ latest = NoEntry
    /\ plot_renders = 0
    /\ inputs = 0
    /\ connected = {}
    /\ temp_unit = [s \in Sessions |-> "Celsius"]
    /\ location = [s \in Sessions |-> "Palmer Station"]
    /\ pending = [s \in Sessions |-> {}]
    /\ rendered = [s \in Sessions |-> NotRendered]

Init == InitWith(MAX_DEQUE_LENGTH)

\* no flush is under way: events are handled one at a time, each followed by
\* the flush that renders what it invalidated
Quiescent == \A s \in Sessions : pending[s] = {}

\* a browser opens the page: server() runs and every output renders once
Connect(s) ==
    /\ s \notin connected
    /\ \A r \in Sessions : r < s => r \in connected
    /\ Quiescent
    /\ plot_renders < MaxPlotRenders
    /\ connected' = connected \cup {s}
    /\ pending' = [pending EXCEPT ![s] = Outputs]
    /\ UNCHANGED <<now, maxlen, temp_deque, appended, calc_valid, df, latest,
                   plot_renders, inputs, temp_unit, location, rendered>>

\* reactive.invalidate_later(UPDATE_INTERVAL_SECS) fires: the cached value is
\* dropped and every output that read it is invalidated; firings are explored
\* while the clock is below limit
TimerFires(limit) ==
    /\ calc_valid
    /\ Quiescent
    /\ now < limit
    /\ now' = now + UPDATE_INTERVAL_SECS
    /\ calc_valid' = FALSE
    /\ pending' = [s \in Sessions |->
                      IF s \in connected THEN pending[s] \cup CalcReaders ELSE pending[s]]
    /\ UNCHANGED <<maxlen, temp_deque, appended, df, latest, plot_renders, inputs,
                   connected, temp_unit, location, rendered>>

\* the user picks another radio button
SelectUnit(s, u) ==
    /\ s \in connected
    /\ Quiescent
    /\ u # temp_unit[s]
    /\ plot_renders < MaxPlotRenders
    /\ inputs < MaxInputs
    /\ inputs' = inputs + 1
    /\ temp_unit' = [temp_unit EXCEPT ![s] = u]
    /\ pending' = [pending EXCEPT ![s] = @ \cup UnitReaders]
    /\ UNCHANGED <<now, maxlen, temp_deque, appended, calc_valid, df, latest,
                   plot_renders, connected, location, rendered>>

\* the user picks another location
SelectLocation(s, l) ==
    /\ s \in connected
    /\ Quiescent
    /\ l # location[s]
    /\ inputs < MaxInputs
    /\ inputs' = inputs + 1
    /\ location' = [location EXCEPT ![s] = l]
    /\ pending' = [pending EXCEPT ![s] = @ \cup {"display_location_with_icon"}]
    /\ UNCHANGED <<now, maxlen, temp_deque, appended, calc_valid, df, latest,
                   plot_renders, connected, temp_unit, rendered>>

\* the state a call of reactive_calc_combined() leaves, the DataFrame aside
CalcCalled(c) ==
    /\ temp_deque' = c.temp_deque
    /\ appended' = c.appended
    /\ latest' = c.latest
    /\ calc_valid' = TRUE

\* server() defines the outputs in this order, and a flush renders a session's
\* invalidated outputs in it
RenderOrder ==
    <<"display_temp", "display_time", "display_location_with_icon",
      "temp_message", "display_plot">>

\* output o of session s is the next one the flush renders for s
IsNext(s, o) ==
    /\ o \in pending[s]
    /\ \A i, j \in 1..Len(RenderOrder) :
          (RenderOrder[j] = o /\ i < j) => RenderOrder[i] \notin pending[s]

Flushed(s, o) ==
    /\ pending' = [pending EXCEPT ![s] = @ \ {o}]
    /\ UNCHANGED <<now, maxlen, inputs, connected, temp_unit, location>>

RenderDisplayTemp(s, T) ==
    /\ IsNext(s, "display_temp")
    /\ \E temp \in Draws(T) :
          LET c == reactive_calc_combined(s, temp) IN
          /\ CalcCalled(c)
          /\ df' = c.df
          /\ plot_renders' = c.plot_renders
          /\ rendered' = [rendered EXCEPT
                ![s]["display_temp"] = display_temp(c.latest, temp_unit[s])]
    /\ Flushed(s, "display_temp")

RenderDisplayTime(s, T) ==
    /\ IsNext(s, "display_time")
    /\ \E temp \in Draws(T) :
          LET c == reactive_calc_combined(s, temp) IN
          /\ CalcCalled(c)
          /\ df' = c.df
          /\ plot_renders' = c.plot_renders
          /\ rendered' = [rendered EXCEPT ![s]["display_time"] = display_time(c.latest)]
    /\ Flushed(s, "display_time")

RenderLocation(s) ==
    /\ IsNext(s, "display_location_with_icon")
    /\ rendered' = [rendered EXCEPT
          ![s]["display_location_with_icon"] = display_location_with_icon(location[s])]
    /\ Flushed(s, "display_location_with_icon")
    /\ UNCHANGED <<temp_deque, appended, calc_valid, df, latest, plot_renders>>

RenderTempMessage(s, T) ==
    /\ IsNext(s, "temp_message")
    /\ \E temp \in Draws(T) :
          LET c == reactive_calc_combined(s, temp) IN
          /\ CalcCalled(c)
          /\ df' = c.df
          /\ plot_renders' = c.plot_renders
          /\ rendered' = [rendered EXCEPT ![s]["temp_message"] = temp_message(c.latest)]
    /\ Flushed(s, "temp_message")

RenderDisplayPlot(s, T) ==
    /\ IsNext(s, "display_plot")
    /\ \E temp \in Draws(T) :
          LET c == reactive_calc_combined(s, temp)
              p == display_plot(c.df, temp_unit[s])
          IN
          /\ CalcCalled(c)
          /\ df' = p.df
          /\ plot_renders' = c.plot_renders + 1
          /\ rendered' = [rendered EXCEPT ![s]["display_plot"] = p.out]
    /\ Flushed(s, "display_plot")

\* the steps of the process with browsers S, generator values T and timer
\* firings while the clock is below limit
NextOver(T, S, limit) ==
    \/ \E s \in S : Connect(s)
    \/ TimerFires(limit)
    \/ \E s \in S, u \in Units : SelectUnit(s, u)
    \/ \E s \in S, l \in Locations : SelectLocation(s, l)
    \/ \E s \in S : RenderDisplayTemp(s, T)
    \/ \E s \in S : RenderDisplayTime(s, T)
    \/ \E s \in S : RenderLocation(s)
    \/ \E s \in S : RenderTempMessage(s, T)
    \/ \E s \in S : RenderDisplayPlot(s, T)

Next == NextOver(SampleTemps, Sessions, MaxTicks)

Spec == Init /\ [][Next]_vars

\* One browser, the first timer firing, every value the generator can produce
FullRangeNext == NextOver(GeneratorRange, {1}, UPDATE_INTERVAL_SECS)

SpecFullRange == Init /\ [][FullRangeNext]_vars

\* The window capacity is a parameter of the program: every capacity from 0 up,
\* one browser
InitAnyCapacity == \E cap \in 0..MAX_DEQUE_LENGTH : InitWith(cap)

AnyCapacityNext == NextOver(SampleTemps, {1}, MaxTicks)

SpecAnyCapacity == InitAnyCapacity /\ [][AnyCapacityNext]_vars

----------------------------------------------------------------------------
(* Properties *)

Min(a, b) == IF a < b THEN a ELSE b

\* timer firings so far
Ticks == now \div UPDATE_INTERVAL_SECS

\* the dicts appended so far, oldest first
AppendedEntries == [i \in 1..Len(appended) |-> Entry(appended[i].temp, appended[i].timestamp)]

\* the session whose render drew the i-th reading of the window
DrawnBy(i) == appended[Len(appended) - Len(temp_deque) + i].by

\* output o of session s shows the value of a render and is not waiting for another
Shown(s, o) == o \notin pending[s] /\ rendered[s][o] # NotRendered[o]

\* C1: after m appends the window holds exactly the last min(m, MAX_DEQUE_LENGTH)
\* appended readings in the order they were appended; its length never
\* exceeds the capacity and a full window loses only its oldest reading.
WindowIsLastAppended ==
    LET m == Len(appended)
        k == Min(m, MAX_DEQUE_LENGTH)
    IN  /\ Len(temp_deque) = k
        /\ Len(temp_deque) <= MAX_DEQUE_LENGTH
        /\ \A i \in 1..k : temp_deque[i] = AppendedEntries[m - k + i]

\* C1 witness: one reading more than the capacity was appended and the first is gone
WindowHasEvicted ==
    /\ Len(appended) = MAX_DEQUE_LENGTH + 1
    /\ Len(temp_deque) = MAX_DEQUE_LENGTH
    /\ temp_deque[1] = AppendedEntries[2]
    /\ temp_deque[1] # AppendedEntries[1]

\* C2: within one tick every reader of reactive_calc_combined shows the same
\* reading: the temperature of display_temp, the timestamp of display_time,
\* the message of temp_message and the last point of display_plot all come
\* from the one cached draw, in every session.
ReadersSeeOneDraw ==
    \A s \in Sessions :
        /\ Shown(s, "display_temp") =>
              rendered[s]["display_temp"] = display_temp(latest, temp_unit[s])
        /\ Shown(s, "display_time") =>
              rendered[s]["display_time"].timestamp = latest.timestamp
        /\ Shown(s, "temp_message") =>
              rendered[s]["temp_message"].message
                 = (IF latest.temp > HeatwaveThreshold THEN "Micro Heatwave" ELSE "Could be Warmer")
        /\ (Shown(s, "display_plot") /\ rendered[s]["display_plot"].kind = "chart") =>
              LET x == rendered[s]["display_plot"].x IN x[Len(x)] = latest.timestamp

\* C2 witness: after a timer firing two sessions have rendered all their outputs
TwoSessionsRenderedATick ==
    /\ now >= 1
    /\ connected = Sessions
    /\ Quiescent
    /\ \A s \in Sessions : \A o \in CalcReaders : Shown(s, o)
    /\ rendered[1]["display_time"] = rendered[2]["display_time"]

\* C3 as stated: once the flush is over, the number of readings appended equals
\* the number of timer firings.
AppendsEqualTicks == Quiescent => Len(appended) = Ticks

\* C3 amended: the first reading is appended by the first render after start-up,
\* with no timer firing; afterwards every timer firing is followed by exactly one
\* append, made by the first render that finds the cached value gone.  So the
\* readings appended number the timer firings plus one while a cached value is
\* held and the timer firings while none is held, and neither an input change
\* nor a render that finds the cached value appends.
AppendsFollowTicks ==
    Len(appended) = Ticks + (IF calc_valid THEN 1 ELSE 0)

\* C3 witness: timer firings, an input change and the renders after them
TicksInputsAndRenders ==
    /\ now >= 2
    /\ inputs >= 1
    /\ Quiescent
    /\ Len(appended) = Ticks + 1

\* C4: each session's window holds only readings generated for that session.
WindowsArePerSession ==
    \A s \in connected :
        Shown(s, "display_plot") => \A i \in 1..Len(temp_deque) : DrawnBy(i) = s

\* C5: each plotted value is the window's Celsius reading at that position
\* converted once to the session's selected unit.
PlotConvertsOnce ==
    \A s \in connected :
        (Shown(s, "display_plot") /\ rendered[s]["display_plot"].kind = "chart") =>
            rendered[s]["display_plot"].y
              = [i \in 1..Len(temp_deque) |-> ConvertCell(Cell(temp_deque[i].temp), temp_unit[s])]

\* C6: two reads of the snapshot with no append between them return equal
\* sequences of Celsius readings, from the deque and from the DataFrame, also
\* when display_plot rendered in between.
SnapshotReadOnly ==
    [][(calc_valid /\ calc_valid' /\ appended' = appended) =>
          (temp_deque' = temp_deque /\ df'.temp = df.temp)]_vars

\* C7: the message is "Micro Heatwave" exactly when the latest reading is above
\* -17.0 and "Could be Warmer" otherwise, for each generator value from -18.0
\* to -16.0; -17.0 gives "Could be Warmer"; the selected unit plays no part.
MessageFollowsThreshold ==
    \A s \in Sessions :
        Shown(s, "temp_message") =>
            /\ latest.temp \in -180..-160
            /\ rendered[s]["temp_message"].message \in {"Micro Heatwave", "Could be Warmer"}
            /\ rendered[s]["temp_message"].message = "Micro Heatwave" <=> latest.temp \in -169..-160
            /\ rendered[s]["temp_message"].message = "Could be Warmer" <=> latest.temp \in -180..-170

\* C7 witness: a reading of exactly -17.0 shown in Fahrenheit
BoundaryReadingInFahrenheit ==
    /\ latest.temp = -170
    /\ temp_unit[1] = "Fahrenheit"
    /\ Shown(1, "display_temp")
    /\ rendered[1]["display_temp"].suffix = "F"
    /\ Shown(1, "temp_message")
    /\ rendered[1]["temp_message"].message = "Could be Warmer"

\* C8: display_plot renders the placeholder exactly when its snapshot is empty
\* and then does not call the fit; whenever it calls the fit the snapshot has at
\* least one reading.
FitNeverOnEmptyWindow ==
    \A s \in Sessions :
        LET p == rendered[s]["display_plot"] IN
        Shown(s, "display_plot") =>
            /\ Len(df.temp) = 0 <=> p.kind = "placeholder"
            /\ p.kind = "placeholder" => p.fit_n = -1
            /\ p.fit_n # -1 => (p.fit_n >= 1 /\ p.kind = "chart")

\* C8 witness: a render of display_plot on an empty snapshot gave the placeholder
PlaceholderRendered ==
    /\ Len(appended) >= 1
    /\ calc_valid
    /\ Len(df.temp) = 0
    /\ Shown(1, "display_plot")
    /\ rendered[1]["display_plot"].kind = "placeholder"

\* C9: the fit over a window of one reading has slope 0 and the reading's value
\* as intercept.
SinglePointFit ==
    \A s \in Sessions :
        LET p == rendered[s]["display_plot"] IN
        (p.kind = "chart" /\ p.fit_n = 1) =>
            (p.slope = FromInt(0) /\ p.intercept = p.y[1])

====
